---- MODULE Spec2Model ----
(***************************************************************************)
(* cleancat.chausie: schema definition (schema, _check_for_dependency_     *)
(* loops), the evaluation loop of clean (_clean) and serialize             *)
(* (_serialize), as a state machine.  One behaviour is: a class body is    *)
(* written, schema() decorates it, clean is called once on some input and  *)
(* the returned instance is serialized (Spec).  SpecAnyOrder lets the loop *)
(* take the fields in any order, SpecConcurrent interleaves a second clean *)
(* call, FairSpec runs a started call to its end.                          *)
(***************************************************************************)
EXTENDS Integers, Sequences, FiniteSets, TLC

VARIABLES
    cls,          \* the class: its __dict__ of Fields, its __annotations__, installed entry points
    pc,           \* where the behaviour is: "class", "schema", "raised", "cleaning",
                  \* "clean_raised", "returned", "serialized", "serialize_raised"
    raised,       \* the exception schema(), clean or serialize left with ("" when none)
    data,         \* the input record of the clean call
    eval_queue,   \* _clean's eval_queue (field names; the Field is looked up in cls)
    delayed_eval, \* _clean's delayed_eval
    results,      \* _clean's results dict, in insertion order: a sequence of [name, out]
    calls,        \* history: the run_validators invocations, in order
    invoked,      \* history: the validator functions invoked, in order
    returned,     \* what clean returned
    serialized,   \* what serialize returned
    other         \* a second clean call on the same class: its data and locals

vars == <<cls, pc, raised, data, eval_queue, delayed_eval, results, calls,
          invoked, returned, serialized, other>>

----------------------------------------------------------------------------
(* Bounds *)

MaxFields == 3

AllNames == <<"a", "b", "c", "d", "e">>

\* the field names a class of the dependency family may declare or name
Names == {AllNames[i] : i \in 1..MaxFields}

\* an input key that is no field's name (test_accepts: 'deprecated_int')
AltKey == "deprecated"

----------------------------------------------------------------------------
(* Values.  Python objects are records [t, v]: the type tag and, for an    *)
(* int, the number.                                                        *)

IntVal(n) == [t |-> "int", v |-> n]
StrVal(n) == [t |-> "str", v |-> n]
None == [t |-> "None", v |-> 0]
omitted == [t |-> "omitted", v |-> 0]
empty == [t |-> "empty", v |-> 0]

\* mylowint of the tests' example_schema rejects values that are not below 5
Threshold == 5

RawInts == {IntVal(Threshold - 1), IntVal(Threshold)}

\* what a key of an input record may hold
RawValues == RawInts \cup {None, StrVal(1)}

(* Value / Error (field.py).  One record shape for both.                   *)
Value(v) == [isValue |-> TRUE, value |-> v, msg |-> "", field |-> <<>>]
Error(m, f) == [isValue |-> FALSE, value |-> empty, msg |-> m, field |-> f]

----------------------------------------------------------------------------
(* Field definitions (field.py): simple_field and the chain executor.      *)

Required == "Required"
Optional == "Optional"

\* serialize_func's default
noop == "noop"

simple_field(parents, accepts, serialize_to, serialize_func, nullability, depends_on) ==
    [validators |-> parents, accepts |-> accepts, serialize_to |-> serialize_to,
     serialize_func |-> serialize_func, nullability |-> nullability,
     depends_on |-> depends_on]

\* FIELD_TYPE_MAP: the annotations that have a built-in validator
FIELD_TYPE_MAP == [int |-> "intfield", str |-> "strfield"]

(* One validator function applied to one value: the replacement value, or  *)
(* an Error message.                                                       *)
ApplyValidator(func, value) ==
    CASE func = "intfield" ->
            IF value.t = "int" THEN [err |-> FALSE, value |-> value, msg |-> ""]
            ELSE [err |-> TRUE, value |-> empty, msg |-> "Unrecognized type"]
      [] func = "strfield" ->
            IF value.t = "str" THEN [err |-> FALSE, value |-> value, msg |-> ""]
            ELSE [err |-> TRUE, value |-> empty, msg |-> "Unrecognized type"]
      [] func = "mylowint" ->
            IF value.v < Threshold THEN [err |-> FALSE, value |-> value, msg |-> ""]
            ELSE [err |-> TRUE, value |-> empty, msg |-> "Needs to be less than 5"]
      [] func = "double" ->
            [err |-> FALSE, value |-> IntVal(value.v * 2), msg |-> ""]

(* The chain from its i-th function on: [out, log], log the functions      *)
(* invoked with the value each one saw.                                    *)
RECURSIVE RunChain(_, _, _, _)
RunChain(validators, i, value, field) ==
    IF i > Len(validators) THEN [out |-> Value(value), log |-> <<>>]
    ELSE LET r == ApplyValidator(validators[i], value)
             entry == [field |-> field, func |-> validators[i], value |-> value]
         IN IF r.err THEN [out |-> Error(r.msg, field), log |-> <<entry>>]
            ELSE LET rest == RunChain(validators, i + 1, r.value, field)
                 IN [out |-> rest.out, log |-> <<entry>> \o rest.log]

(* Field.run_validators: the nullability policy, then the chain.           *)
run_validators(field_def, field, value) ==
    IF value = omitted THEN
        IF field_def.nullability = Required
        THEN [out |-> Error("Value is required.", field), log |-> <<>>]
        ELSE [out |-> Value(omitted), log |-> <<>>]
    ELSE IF value = None THEN
        IF field_def.nullability = Required
        THEN [out |-> Error("Value is required, and must not be None.", field), log |-> <<>>]
        ELSE [out |-> Value(None), log |-> <<>>]
    ELSE RunChain(field_def.validators, 1, value, field)

\* Error.flatten: the Errors of one failed outcome
flatten(out) == <<out>>

----------------------------------------------------------------------------
(* schema.py                                                               *)

(* A Python dict, or the attributes of an object, is a set of <<key, value>>  *)
(* pairs with one pair per key.                                            *)
Keys(d) == {p[1] : p \in d}
DictGet(d, k) == (CHOOSE p \in d : p[1] = k)[2]
DictSet(d, k, v) == {p \in d : p[1] # k} \cup {<<k, v>>}

\* an input record: a dict, or another object, with its entries/attributes
Record(isdict, items) == [isdict |-> isdict, items |-> items]

getter(dict_or_obj, field, default) ==
    IF dict_or_obj.isdict
    THEN IF field \in Keys(dict_or_obj.items) THEN DictGet(dict_or_obj.items, field)
         ELSE default
    ELSE None    \* line 23 has no return: the attribute read is dropped

\* cls.__dict__ restricted to Fields, in insertion order: a sequence of [name, f_def]
get_fields(c) == c.dict

FieldNames(c) == {get_fields(c)[i].name : i \in 1..Len(get_fields(c))}

FieldDef(c, name) ==
    (CHOOSE e \in {get_fields(c)[i] : i \in 1..Len(get_fields(c))} : e.name = name).f_def

\* an annotation: typing.get_origin and typing.get_args
Annotation(origin, args) == [origin |-> origin, args |-> args]
Plain(t) == Annotation("", <<t>>)
Union(ts) == Annotation("Union", ts)

\* _field_def_from_annotation: [raised, f_def]
_field_def_from_annotation(annotation) ==
    LET plain == simple_field(<<>>, <<>>, "", noop, Required, {})
        fail == [raised |-> "TypeError", f_def |-> plain]
        args == annotation.args
    IN IF annotation.origin = "" /\ args[1] \in DOMAIN FIELD_TYPE_MAP
       THEN [raised |-> "",
             f_def |-> simple_field(<<FIELD_TYPE_MAP[args[1]]>>, <<>>, "", noop, Required, {})]
       ELSE IF annotation.origin = "Union"
       THEN IF ~(Len(args) = 2 /\ \E i \in 1..Len(args) : args[i] = "NoneType")
            THEN fail
            ELSE LET inner == args[CHOOSE i \in 1..Len(args) :
                                      /\ args[i] # "NoneType"
                                      /\ \A j \in 1..(i - 1) : args[j] = "NoneType"]
                 IN IF inner \in DOMAIN FIELD_TYPE_MAP
                    THEN [raised |-> "",
                          f_def |-> simple_field(<<FIELD_TYPE_MAP[inner]>>, <<>>, "", noop,
                                                 Optional, {})]
                    ELSE fail
       ELSE fail

(* The autodef loop of schema(), from the i-th annotation on: each         *)
(* annotated name that is not an existing field is set on the class; an    *)
(* unrecognized annotation raises, the earlier setattrs staying.           *)
RECURSIVE AutoDefine(_, _, _, _)
AutoDefine(dict, annotations, i, existing_fields) ==
    IF i > Len(annotations) THEN [dict |-> dict, raised |-> ""]
    ELSE IF annotations[i].name \in existing_fields
    THEN AutoDefine(dict, annotations, i + 1, existing_fields)
    ELSE LET r == _field_def_from_annotation(annotations[i].f_type)
         IN IF r.raised # "" THEN [dict |-> dict, raised |-> r.raised]
            ELSE AutoDefine(Append(dict, [name |-> annotations[i].name, f_def |-> r.f_def]),
                            annotations, i + 1, existing_fields)

(* The while loop of _check_for_dependency_loops.  deps is the dict in     *)
(* insertion order, a sequence of [name, deps]; each pass pops the first   *)
(* entry whose dependencies are all seen.                                  *)
RECURSIVE ResolveLoop(_, _)
ResolveLoop(deps, seen) ==
    IF deps = <<>> THEN ""
    ELSE LET ready == {i \in 1..Len(deps) :
                          deps[i].deps = {} \/ \A f_dep \in deps[i].deps : f_dep \in seen}
         IN IF ready = {} THEN "ValueError"
            ELSE LET i == CHOOSE k \in ready : \A j \in ready : k <= j
                     seen2 == seen \cup {deps[i].name}
                     rest == SubSeq(deps, 1, i - 1) \o SubSeq(deps, i + 1, Len(deps))
                 IN IF Cardinality(seen2) = Cardinality(seen) THEN "ValueError"
                    ELSE ResolveLoop(rest, seen2)

\* the while loop with any() in place of all() on line 148
RECURSIVE ResolveLoopAny(_, _)
ResolveLoopAny(deps, seen) ==
    IF deps = <<>> THEN ""
    ELSE LET ready == {i \in 1..Len(deps) :
                          deps[i].deps = {} \/ \E f_dep \in deps[i].deps : f_dep \in seen}
         IN IF ready = {} THEN "ValueError"
            ELSE LET i == CHOOSE k \in ready : \A j \in ready : k <= j
                     seen2 == seen \cup {deps[i].name}
                     rest == SubSeq(deps, 1, i - 1) \o SubSeq(deps, i + 1, Len(deps))
                 IN IF Cardinality(seen2) = Cardinality(seen) THEN "ValueError"
                    ELSE ResolveLoopAny(rest, seen2)

_check_for_dependency_loops_any(c) ==
    ResolveLoopAny([i \in 1..Len(get_fields(c)) |->
                       [name |-> get_fields(c)[i].name,
                        deps |-> get_fields(c)[i].f_def.depends_on]],
                   {})

\* one pass over the fields in declaration order, in place of the while loop
RECURSIVE ResolveInDeclarationOrder(_, _)
ResolveInDeclarationOrder(deps, seen) ==
    IF deps = <<>> THEN ""
    ELSE IF deps[1].deps \subseteq seen /\ deps[1].name \notin seen
    THEN ResolveInDeclarationOrder(Tail(deps), seen \cup {deps[1].name})
    ELSE "ValueError"

_check_in_declaration_order(c) ==
    ResolveInDeclarationOrder([i \in 1..Len(get_fields(c)) |->
                                  [name |-> get_fields(c)[i].name,
                                   deps |-> get_fields(c)[i].f_def.depends_on]],
                              {})

\* the while loop with the names that are not fields counted as seen
_check_ignoring_unknown_names(c) ==
    ResolveLoop([i \in 1..Len(get_fields(c)) |->
                    [name |-> get_fields(c)[i].name,
                     deps |-> get_fields(c)[i].f_def.depends_on \cap FieldNames(c)]],
                {})

\* "" when the check returns, "ValueError" when it raises
_check_for_dependency_loops(c) ==
    ResolveLoop([i \in 1..Len(get_fields(c)) |->
                    [name |-> get_fields(c)[i].name,
                     deps |-> get_fields(c)[i].f_def.depends_on]],
                {})

----------------------------------------------------------------------------
(* The classes and the inputs considered.                                  *)

Class(dict, annotations) ==
    [dict |-> dict, annotations |-> annotations, methods |-> {}]

\* 1..MaxFields fields a, b, ... declared in that order, each depending on
\* any set of names (declared or not), each an int below Threshold
DependencyClasses ==
    {Class([i \in DOMAIN deps |->
               [name |-> AllNames[i],
                f_def |-> simple_field(<<"intfield", "mylowint">>, <<>>, "", noop,
                                       Required, deps[i])]],
           <<>>) :
        deps \in UNION {[1..n -> SUBSET Names] : n \in 1..MaxFields}}

\* the settings of one field: nullability, accepts, chain, serialization
ConfiguredFields ==
    {simple_field(parents, accepts, ser[1], ser[2], nullability, {}) :
        parents \in {<<"intfield">>, <<"intfield", "mylowint">>, <<"intfield", "double">>,
                     <<"intfield", "double", "mylowint">>},
        accepts \in {<<>>, <<"a", AltKey>>, <<AltKey, "a">>, <<AltKey>>},
        ser \in {<<"", noop>>, <<"renamed", noop>>, <<"b", noop>>, <<"", "double">>},
        nullability \in {Required, Optional}}

\* the __annotations__ considered: none, one for a second field b, one for a
AnnotationLists ==
    {<<>>, <<[name |-> "a", f_type |-> Union(<<"int", "NoneType">>)]>>}
    \cup {<<[name |-> "b", f_type |-> t]>> :
            t \in {Plain("int"), Union(<<"NoneType", "int">>), Plain("float"),
                   Union(<<"int", "str">>), Union(<<"float", "NoneType">>)}}

\* one configured field a, and annotations
ConfiguredClasses ==
    {Class(<<[name |-> "a", f_def |-> f]>>, annotations) :
        f \in ConfiguredFields, annotations \in AnnotationLists}

Classes == DependencyClasses \cup ConfiguredClasses

\* the dicts with keys among K and values in V
Dicts(K, V) == UNION {{{<<k, f[k]>> : k \in S} : f \in [S -> V]} : S \in SUBSET K}

\* dict merge of two dicts with disjoint keys
Merge(d1, d2) == d1 \cup d2

(* The inputs tried on a class.  A class with fewer than MaxFields fields  *)
(* gets dicts and non-dict objects over its field names and AltKey, with   *)
(* None, ints and strings; a class with MaxFields fields gets dicts of     *)
(* ints over its field names.                                              *)
Inputs(c) ==
    IF Len(get_fields(c)) < MaxFields
    THEN {Record(isdict, Merge(d, x)) :
            isdict \in BOOLEAN,
            d \in Dicts(FieldNames(c), RawValues),
            x \in Dicts({AltKey}, {None, IntVal(Threshold)})}
    ELSE {Record(TRUE, d) : d \in Dicts(FieldNames(c), RawInts)}

----------------------------------------------------------------------------
(* State machine                                                           *)

NoResult == [kind |-> "", errors |-> <<>>, attrs |-> {}]

(* The data and the locals of one clean call, with its history.            *)
Frame(p, exc, d, queue, delayed, res, cs, inv, ret) ==
    [pc |-> p, raised |-> exc, data |-> d, eval_queue |-> queue,
     delayed_eval |-> delayed, results |-> res, calls |-> cs, invoked |-> inv,
     returned |-> ret]

\* a call that has not started
Idle == Frame("idle", "", Record(TRUE, {}), <<>>, <<>>, <<>>, <<>>, <<>>, NoResult)

Init ==
    /\ cls \in Classes
    /\ pc = "class"
    /\ raised = ""
    /\ data = Record(TRUE, {})
    /\ eval_queue = <<>>
    /\ delayed_eval = <<>>
    /\ results = <<>>
    /\ calls = <<>>
    /\ invoked = <<>>
    /\ returned = NoResult
    /\ serialized = {}
    /\ other = Idle

(* schema(cls, autodef): lines 158-179 *)
schema(autodef) ==
    /\ pc = "class"
    /\ LET defined == IF autodef
                      THEN AutoDefine(cls.dict, cls.annotations, 1, FieldNames(cls))
                      ELSE [dict |-> cls.dict, raised |-> ""]
           c1 == [cls EXCEPT !.dict = defined.dict]
           err == IF defined.raised # "" THEN defined.raised
                  ELSE _check_for_dependency_loops(c1)
       IN /\ cls' = IF err = ""
                    THEN [c1 EXCEPT !.methods = {"__clean", "__init__", "__serialize"}]
                    ELSE c1
          /\ raised' = err
          /\ pc' = IF err = "" THEN "schema" ELSE "raised"
    /\ UNCHANGED <<data, eval_queue, delayed_eval, results, calls, invoked,
                   returned, serialized, other>>

\* lines 68-72: the names of the fields with (wantDelayed) or without
\* dependencies, from the i-th on, in declaration order
RECURSIVE Partition(_, _, _)
Partition(field_defs, i, wantDelayed) ==
    IF i > Len(field_defs) THEN <<>>
    ELSE (IF (field_defs[i].f_def.depends_on # {}) = wantDelayed
          THEN <<field_defs[i].name>> ELSE <<>>)
         \o Partition(field_defs, i + 1, wantDelayed)

\* lines 63-75 with the fields that have dependencies dropped
BeginForgettingDelayed(c, d) ==
    Frame("cleaning", "", d, Partition(get_fields(c), 1, FALSE), <<>>, <<>>, <<>>, <<>>,
          NoResult)

(* _clean up to the while loop, lines 63-75: the call's locals *)
Begin(c, d) ==
    LET field_defs == get_fields(c)
        queue == Partition(field_defs, 1, FALSE)
        delayed == Partition(field_defs, 1, TRUE)
    IN IF Len(field_defs) = Len(queue) + Len(delayed)
       THEN Frame("cleaning", "", d, queue, delayed, <<>>, <<>>, <<>>, NoResult)
       ELSE Frame("clean_raised", "AssertionError", d, queue, delayed, <<>>, <<>>, <<>>,
                  NoResult)

\* the first call's data and locals
Frame1 ==
    Frame(pc, raised, data, eval_queue, delayed_eval, results, calls, invoked, returned)

\* the first call's data and locals become those of fr
Store(fr) ==
    /\ pc' = fr.pc
    /\ raised' = fr.raised
    /\ data' = fr.data
    /\ eval_queue' = fr.eval_queue
    /\ delayed_eval' = fr.delayed_eval
    /\ results' = fr.results
    /\ calls' = fr.calls
    /\ invoked' = fr.invoked
    /\ returned' = fr.returned

(* clean(schema, data) up to the while loop: lines 182-185 and 63-75 *)
clean ==
    /\ pc = "schema"
    /\ "__clean" \in cls.methods
    /\ \E d \in Inputs(cls) : \E fr \in {Begin(cls, d)} : Store(fr)
    /\ UNCHANGED <<cls, serialized, other>>

(* The results dict: a sequence of [name, out] in insertion order.         *)
ResultKeys(res) == {res[i].name : i \in 1..Len(res)}
ResultOf(res, name) == (CHOOSE e \in {res[i] : i \in 1..Len(res)} : e.name = name).out
ResultSet(res, name, out) ==
    IF name \in ResultKeys(res)
    THEN [i \in 1..Len(res) |-> IF res[i].name = name THEN [name |-> name, out |-> out]
                                ELSE res[i]]
    ELSE Append(res, [name |-> name, out |-> out])

\* lines 80-84 without the break: the last key present wins
RECURSIVE ReadAcceptedWithoutBreak(_, _, _, _)
ReadAcceptedWithoutBreak(d, accepts, i, value) ==
    IF i > Len(accepts) THEN value
    ELSE LET v == getter(d, accepts[i], omitted)
         IN ReadAcceptedWithoutBreak(d, accepts, i + 1,
                                     IF v # omitted \/ value = empty THEN v ELSE value)

(* lines 80-84: the for loop over accepts, from the i-th key on *)
RECURSIVE ReadAccepted(_, _, _, _)
ReadAccepted(d, accepts, i, value) ==
    IF i > Len(accepts) THEN value
    ELSE LET v == getter(d, accepts[i], omitted)
         IN IF v # omitted THEN v ELSE ReadAccepted(d, accepts, i + 1, v)

\* line 79 with the field's name always tried last
AcceptsThenName(field_name, field_def) ==
    IF field_name \in {field_def.accepts[i] : i \in 1..Len(field_def.accepts)}
    THEN field_def.accepts ELSE field_def.accepts \o <<field_name>>

\* line 79 without the fall-back to the field's name
AcceptsAsConfigured(field_name, field_def) == field_def.accepts

\* line 79
Accepts(field_name, field_def) ==
    IF field_def.accepts # <<>> THEN field_def.accepts ELSE <<field_name>>

\* lines 96-105 without the isinstance(results[dep], Value) test
EligibleAfterAnyOutcome(name, f, res, queued_fields) ==
    /\ name \notin ResultKeys(res)
    /\ name \notin queued_fields
    /\ \A dep \in f.depends_on : dep \in ResultKeys(res)

\* lines 96-105 without the name not in results test
EligibleAgain(name, f, res, queued_fields) ==
    /\ name \notin queued_fields
    /\ \A dep \in f.depends_on :
          dep \in ResultKeys(res) /\ ResultOf(res, dep).isValue

\* lines 96-105 with any() in place of all()
EligibleAfterAnyDependency(name, f, res, queued_fields) ==
    /\ name \notin ResultKeys(res)
    /\ name \notin queued_fields
    /\ \E dep \in f.depends_on :
          dep \in ResultKeys(res) /\ ResultOf(res, dep).isValue

\* lines 96-105: the condition under which a delayed field is queued
Eligible(name, f, res, queued_fields) ==
    /\ name \notin ResultKeys(res)
    /\ name \notin queued_fields
    /\ \A dep \in f.depends_on :
          dep \in ResultKeys(res) /\ ResultOf(res, dep).isValue

\* lines 95-106: the delayed fields to append, from the i-th on
RECURSIVE NewlyQueued(_, _, _, _, _)
NewlyQueued(c, delayed, i, res, queued_fields) ==
    IF i > Len(delayed) THEN <<>>
    ELSE (IF Eligible(delayed[i], FieldDef(c, delayed[i]), res, queued_fields)
          THEN <<delayed[i]>> ELSE <<>>)
         \o NewlyQueued(c, delayed, i + 1, res, queued_fields)

\* line 77 taking the first element
PopFirst(queue) == [item |-> Head(queue), rest |-> Tail(queue)]

\* line 77: list.pop() takes the last element
Pop(queue) == [item |-> queue[Len(queue)], rest |-> SubSeq(queue, 1, Len(queue) - 1)]

\* the queue with its k-th element taken out
PopAt(queue, k) ==
    [item |-> queue[k], rest |-> SubSeq(queue, 1, k - 1) \o SubSeq(queue, k + 1, Len(queue))]

\* the element of a set of one element
TheOnly(S) == CHOOSE x \in S : TRUE

\* lines 87-106 with the loop ending at the first outcome that is an Error
AfterValidatorsStoppingAtError(c, fr, popped, value, r, res) ==
    LET queued_fields == {popped.rest[i] : i \in 1..Len(popped.rest)}
    IN [fr EXCEPT
           !.results = res,
           !.calls = Append(fr.calls, [field |-> popped.item, value |-> value,
                                       intermediate_results |-> fr.results,
                                       out |-> r.out]),
           !.invoked = fr.invoked \o r.log,
           !.eval_queue = IF ~r.out.isValue THEN <<>>
                          ELSE popped.rest
                               \o NewlyQueued(c, fr.delayed_eval, 1, res, queued_fields)]

(* Lines 87-106: the outcome r of run_validators is stored, making the     *)
(* results dict res, and the delayed fields are scanned.                   *)
AfterValidators(c, fr, popped, value, r, res) ==
    LET queued_fields == {popped.rest[i] : i \in 1..Len(popped.rest)}
    IN [fr EXCEPT
           !.results = res,
           !.calls = Append(fr.calls, [field |-> popped.item, value |-> value,
                                       intermediate_results |-> fr.results,
                                       out |-> r.out]),
           !.invoked = fr.invoked \o r.log,
           !.eval_queue = popped.rest
                          \o NewlyQueued(c, fr.delayed_eval, 1, res, queued_fields)]

(* The body of the while loop of _clean, lines 77-106, for the popped      *)
(* field: the call's locals after it.  The outcome and the results dict    *)
(* are bound by set constructors, so that each is computed once.           *)
Iteration(c, fr, popped) ==
    LET field_name == popped.item
        field_def == FieldDef(c, field_name)
        value == ReadAccepted(fr.data, Accepts(field_name, field_def), 1, empty)
    IN IF value = empty
       THEN [fr EXCEPT !.pc = "clean_raised", !.raised = "AssertionError",
                       !.eval_queue = popped.rest]
       ELSE TheOnly(UNION {
                {AfterValidators(c, fr, popped, v, r, res) :
                    res \in {ResultSet(fr.results, field_name, r.out)}} :
                v \in {value}, r \in {run_validators(field_def, <<field_name>>, value)}})

(* One iteration of the while loop of _clean: lines 76-106 *)
_clean_loop ==
    /\ pc = "cleaning"
    /\ eval_queue # <<>>
    /\ \E fr \in {Iteration(cls, Frame1, Pop(eval_queue))} : Store(fr)
    /\ UNCHANGED <<cls, serialized, other>>

\* lines 108-116 with the Errors collected newest first
RECURSIVE ErrorsNewestFirst(_, _)
ErrorsNewestFirst(res, i) ==
    IF i > Len(res) THEN <<>>
    ELSE ErrorsNewestFirst(res, i + 1)
         \o (IF ~res[i].out.isValue THEN flatten(res[i].out) ELSE <<>>)

\* lines 108-116 stopping at the first outcome that is not a Value
RECURSIVE ErrorsFirstOnly(_, _)
ErrorsFirstOnly(res, i) ==
    IF i > Len(res) THEN <<>>
    ELSE IF ~res[i].out.isValue THEN flatten(res[i].out)
    ELSE ErrorsFirstOnly(res, i + 1)

\* lines 108-116: the flattened Errors of the outcomes that are not Values
RECURSIVE Errors(_, _)
Errors(res, i) ==
    IF i > Len(res) THEN <<>>
    ELSE (IF ~res[i].out.isValue THEN flatten(res[i].out) ELSE <<>>) \o Errors(res, i + 1)

\* lines 120, 123-127: cls(**kwargs) sets the attributes that are defined fields
RECURSIVE _new_init(_, _, _)
_new_init(c, res, i) ==
    IF i > Len(res) THEN {}
    ELSE LET rest == _new_init(c, res, i + 1)
         IN IF res[i].name \in FieldNames(c)
            THEN {<<res[i].name, res[i].out.value>>}
                 \cup {p \in rest : p[1] # res[i].name}
            ELSE rest

\* lines 108-120: the call's locals with the value returned
Return(c, fr) ==
    LET errors == Errors(fr.results, 1)
    IN [fr EXCEPT
           !.pc = "returned",
           !.returned = IF errors # <<>>
                        THEN [kind |-> "ValidationError", errors |-> errors, attrs |-> {}]
                        ELSE [kind |-> "instance", errors |-> <<>>,
                              attrs |-> _new_init(c, fr.results, 1)]]

(* The end of _clean: lines 108-120 *)
_clean_return ==
    /\ pc = "cleaning"
    /\ eval_queue = <<>>
    /\ \E fr \in {Return(cls, Frame1)} : Store(fr)
    /\ UNCHANGED <<cls, serialized, other>>

\* the whole loop and the return, lines 76-120, from the locals fr
RECURSIVE RunLoop(_, _)
RunLoop(c, fr) ==
    IF fr.pc # "cleaning" THEN fr
    ELSE IF fr.eval_queue = <<>> THEN Return(c, fr)
    ELSE RunLoop(c, Iteration(c, fr, Pop(fr.eval_queue)))

\* _clean(cls, data, context) run on its own, lines 59-120
_clean(c, d) == RunLoop(c, Begin(c, d))

\* a field's serialize_func applied to an attribute: [raised, value]
ApplySerializeFunc(func, value) ==
    IF func = noop THEN [raised |-> "", value |-> value]
    ELSE IF value.t = "int" THEN [raised |-> "", value |-> IntVal(value.v * 2)]
    ELSE [raised |-> "TypeError", value |-> empty]

\* getattr(self, field_name), lines 134-136: the instance attribute, and the
\* class attribute, which is the Field itself, when the instance has none
ClassAttribute == [t |-> "Field", v |-> 0]

InstanceAttribute(attrs, field_name) ==
    IF field_name \in Keys(attrs) THEN DictGet(attrs, field_name) ELSE ClassAttribute

\* lines 132-137 leaving out the fields whose attribute is None
RECURSIVE _serialize_without_None(_, _, _, _)
_serialize_without_None(field_defs, attrs, i, out) ==
    IF i > Len(field_defs) THEN [raised |-> "", dict |-> out]
    ELSE LET field_name == field_defs[i].name
             field_def == field_defs[i].f_def
         IN IF InstanceAttribute(attrs, field_name) = None
            THEN _serialize_without_None(field_defs, attrs, i + 1, out)
            ELSE LET r == ApplySerializeFunc(field_def.serialize_func,
                                             InstanceAttribute(attrs, field_name))
                     key == IF field_def.serialize_to # "" THEN field_def.serialize_to
                            ELSE field_name
                 IN IF r.raised # "" THEN [raised |-> r.raised, dict |-> out]
                    ELSE _serialize_without_None(field_defs, attrs, i + 1,
                                                 DictSet(out, key, r.value))

\* lines 132-137 with every entry under the field's own name
RECURSIVE _serialize_by_name(_, _, _, _)
_serialize_by_name(field_defs, attrs, i, out) ==
    IF i > Len(field_defs) THEN [raised |-> "", dict |-> out]
    ELSE LET field_name == field_defs[i].name
             field_def == field_defs[i].f_def
             r == ApplySerializeFunc(field_def.serialize_func,
                                     InstanceAttribute(attrs, field_name))
         IN IF r.raised # "" THEN [raised |-> r.raised, dict |-> out]
            ELSE _serialize_by_name(field_defs, attrs, i + 1,
                                    DictSet(out, field_name, r.value))

\* lines 132-137: the dict comprehension, from the i-th field on, added to out
RECURSIVE _serialize(_, _, _, _)
_serialize(field_defs, attrs, i, out) ==
    IF i > Len(field_defs) THEN [raised |-> "", dict |-> out]
    ELSE LET field_name == field_defs[i].name
             field_def == field_defs[i].f_def
             r == ApplySerializeFunc(field_def.serialize_func,
                                     InstanceAttribute(attrs, field_name))
             key == IF field_def.serialize_to # "" THEN field_def.serialize_to
                    ELSE field_name
         IN IF r.raised # "" THEN [raised |-> r.raised, dict |-> out]
            ELSE _serialize(field_defs, attrs, i + 1, DictSet(out, key, r.value))

(* serialize(instance): lines 188-189 and 130-137 *)
serialize ==
    /\ pc = "returned"
    /\ returned.kind = "instance"
    /\ "__serialize" \in cls.methods
    /\ LET r == _serialize(get_fields(cls), returned.attrs, 1, {})
       IN /\ serialized' = r.dict
          /\ raised' = r.raised
          /\ pc' = IF r.raised = "" THEN "serialized" ELSE "serialize_raised"
    /\ UNCHANGED <<cls, data, eval_queue, delayed_eval, results, calls, invoked, returned,
                   other>>

Next ==
    \/ \E autodef \in BOOLEAN : schema(autodef)
    \/ clean
    \/ _clean_loop
    \/ _clean_return
    \/ serialize

Spec == Init /\ [][Next]_vars

(* The evaluation loop taking the next field at any position of the queue, *)
(* on the classes none of whose fields declares a dependency.              *)
InitIndependent ==
    /\ Init
    /\ \A i \in 1..Len(get_fields(cls)) : get_fields(cls)[i].f_def.depends_on = {}

_clean_loop_any_order ==
    /\ pc = "cleaning"
    /\ eval_queue # <<>>
    /\ \E k \in 1..Len(eval_queue) :
          \E fr \in {Iteration(cls, Frame1, PopAt(eval_queue, k))} : Store(fr)
    /\ UNCHANGED <<cls, serialized, other>>

NextAnyOrder ==
    \/ \E autodef \in BOOLEAN : schema(autodef)
    \/ clean
    \/ _clean_loop_any_order
    \/ _clean_return

SpecAnyOrder == InitIndependent /\ [][NextAnyOrder]_vars

(* One call run to its end on the classes of plain fields a, b, c with    *)
(* dependencies: an iteration of the loop that can run does run, and so    *)
(* does the return once the queue is empty.                                *)
ChainNames == {"a", "b", "c"}

InitDependencies ==
    /\ Init
    /\ cls \in DependencyClasses
    /\ FieldNames(cls) \subseteq ChainNames

FairSpec ==
    /\ InitDependencies
    /\ [][Next]_vars
    /\ WF_vars(_clean_loop)
    /\ WF_vars(_clean_return)

(* A second clean call on the same class, its steps interleaved with those *)
(* of the first, on the classes with fields among a and b.                 *)
ConcurrentNames == {"a", "b"}

InitConcurrent ==
    /\ Init
    /\ cls \in DependencyClasses
    /\ FieldNames(cls) \subseteq ConcurrentNames

\* the inputs of the second call
ConcurrentInputs(c) == {Record(TRUE, d) : d \in Dicts(FieldNames(c), RawInts)}

\* the locals of the second call with the first call's results dict
OtherFrameSharingResults == [other EXCEPT !.results = results]

\* the data and the locals of the second call
OtherFrame == other

other_clean ==
    /\ pc \in {"schema", "cleaning", "returned"}
    /\ "__clean" \in cls.methods
    /\ other.pc = "idle"
    /\ \E d \in ConcurrentInputs(cls) : other' = Begin(cls, d)
    /\ UNCHANGED <<cls, pc, raised, data, eval_queue, delayed_eval, results, calls,
                   invoked, returned, serialized>>

other_clean_loop ==
    /\ OtherFrame.pc = "cleaning"
    /\ OtherFrame.eval_queue # <<>>
    /\ other' = Iteration(cls, OtherFrame, Pop(OtherFrame.eval_queue))
    /\ UNCHANGED <<cls, pc, raised, data, eval_queue, delayed_eval, results, calls,
                   invoked, returned, serialized>>

other_clean_return ==
    /\ OtherFrame.pc = "cleaning"
    /\ OtherFrame.eval_queue = <<>>
    /\ other' = Return(cls, OtherFrame)
    /\ UNCHANGED <<cls, pc, raised, data, eval_queue, delayed_eval, results, calls,
                   invoked, returned, serialized>>

NextConcurrent ==
    \/ \E autodef \in BOOLEAN : schema(autodef)
    \/ clean
    \/ _clean_loop
    \/ _clean_return
    \/ other_clean
    \/ other_clean_loop
    \/ other_clean_return

SpecConcurrent == InitConcurrent /\ [][NextConcurrent]_vars

----------------------------------------------------------------------------
(* Vocabulary of the properties                                            *)

\* the fields run_validators was called for, so far
Ran == {calls[i].field : i \in 1..Len(calls)}

DependsOn(c, name) == IF name \in FieldNames(c) THEN FieldDef(c, name).depends_on ELSE {}

RECURSIVE Closure(_, _, _)
Closure(c, S, k) ==
    IF k = 0 THEN S
    ELSE Closure(c, S \cup UNION {DependsOn(c, f) : f \in S}, k - 1)

\* the names a field depends on, directly or transitively
Upstream(c, name) == Closure(c, DependsOn(c, name), Len(get_fields(c)))

HasCycle(c) == \E f \in FieldNames(c) : f \in Upstream(c, f)

Finished == pc \in {"returned", "serialized", "serialize_raised"}

\* the calls whose outcome is an Error, in evaluation order
RECURSIVE FailedCalls(_)
FailedCalls(i) ==
    IF i > Len(calls) THEN <<>>
    ELSE (IF ~calls[i].out.isValue THEN <<calls[i]>> ELSE <<>>) \o FailedCalls(i + 1)

----------------------------------------------------------------------------
(* C1: when a field's evaluation produces an Error, no field depending on  *)
(* it, directly or transitively, is evaluated in that call (neither before *)
(* nor after), and every Error of the returned ValidationError belongs to  *)
(* a field that ran, none to a never-run dependent.                        *)
C1_FailedDependencyBlocksDependents ==
    /\ \A i \in 1..Len(calls) :
          ~calls[i].out.isValue =>
             \A g \in FieldNames(cls) :
                calls[i].field \in Upstream(cls, g) =>
                   /\ g \notin Ran
                   /\ g \notin ResultKeys(results)
                   /\ \A k \in 1..Len(returned.errors) : returned.errors[k].field # <<g>>
    /\ \A k \in 1..Len(returned.errors) :
          /\ Len(returned.errors[k].field) = 1
          /\ returned.errors[k].field[1] \in Ran

\* a call returned the one Error of a failed field that has a dependent of a
\* dependent, which does not name it directly and did not run
C1_Witness ==
    /\ pc = "returned"
    /\ returned.kind = "ValidationError"
    /\ Len(returned.errors) = 1
    /\ \E f \in Ran, g \in FieldNames(cls) :
          /\ ~ResultOf(results, f).isValue
          /\ f \in Upstream(cls, g)
          /\ f \notin DependsOn(cls, g)
          /\ g \notin Ran

(* C2: run_validators is called at most once per field name, a field is    *)
(* never queued twice nor queued once it has a result, and when a field    *)
(* with dependencies is evaluated each name of its depends_on has a Value  *)
(* in the results.                                                         *)
C2_EvaluatedOnceAfterDependencies ==
    /\ \A i, j \in 1..Len(calls) : calls[i].field = calls[j].field => i = j
    /\ \A i, j \in 1..Len(eval_queue) : eval_queue[i] = eval_queue[j] => i = j
    /\ \A i \in 1..Len(eval_queue) : eval_queue[i] \notin ResultKeys(results)
    /\ \A i \in 1..Len(calls) :
          \A dep \in DependsOn(cls, calls[i].field) :
             /\ dep \in ResultKeys(calls[i].intermediate_results)
             /\ ResultOf(calls[i].intermediate_results, dep).isValue

\* a field with two dependencies was evaluated, after both
C2_Witness ==
    /\ pc = "returned"
    /\ \E i \in 1..Len(calls) : Cardinality(DependsOn(cls, calls[i].field)) = 2

(* C3: a class whose dependency graph has a cycle (a self-dependency, two  *)
(* fields naming each other, a longer cycle) never gets past schema():     *)
(* schema() raises, and __clean, __init__ and __serialize are not set.     *)
C3_CycleRejectedAtDefinition ==
    HasCycle(cls) =>
       /\ pc \in {"class", "raised"}
       /\ pc = "raised" => raised = "ValueError"
       /\ cls.methods = {}
       /\ calls = <<>>

\* schema() raised on a cycle through three fields, none naming itself
C3_Witness ==
    /\ pc = "raised"
    /\ Len(get_fields(cls)) = 3
    /\ \A f \in FieldNames(cls) :
          /\ f \in Upstream(cls, f)
          /\ Cardinality(DependsOn(cls, f)) = 1
          /\ f \notin DependsOn(cls, f)

(* C4: clean does not raise; it returns a ValidationError exactly when     *)
(* some evaluated field's outcome is an Error, its errors being the Errors *)
(* of the failed fields in evaluation order, each with the path            *)
(* (field_name,); otherwise it returns an instance whose attributes are    *)
(* the evaluated fields, each holding its Value's payload.                 *)
C4_ReturnsErrorsInEvaluationOrder ==
    /\ pc # "clean_raised"
    /\ Finished =>
          LET failed == FailedCalls(1)
          IN /\ returned.kind \in {"ValidationError", "instance"}
             /\ returned.kind = "ValidationError" <=> failed # <<>>
             /\ returned.kind = "ValidationError" =>
                   /\ Len(returned.errors) = Len(failed)
                   /\ \A k \in 1..Len(failed) :
                         /\ returned.errors[k] = failed[k].out
                         /\ returned.errors[k].field = <<failed[k].field>>
             /\ returned.kind = "instance" =>
                   /\ Keys(returned.attrs) = Ran
                   /\ \A i \in 1..Len(calls) :
                         DictGet(returned.attrs, calls[i].field) = calls[i].out.value

\* a ValidationError with the Errors of two fields, and a third field that passed
C4_Witness ==
    /\ pc = "returned"
    /\ returned.kind = "ValidationError"
    /\ Len(returned.errors) = 2
    /\ returned.errors[1].field # returned.errors[2].field
    /\ Len(calls) = 3

\* the fields all of whose dependencies have a Value in res
Unblocked(c, res) ==
    {f \in FieldNames(c) :
        \A dep \in DependsOn(c, f) : dep \in ResultKeys(res) /\ ResultOf(res, dep).isValue}

(* C5, as stated: after the evaluation loop every field of the schema has  *)
(* an outcome, the keys of results being the schema's field names.         *)
C5_EveryFieldHasAnOutcome ==
    Finished => ResultKeys(results) = FieldNames(cls)

(* C5, amended: after the evaluation loop the results hold one outcome, a  *)
(* Value or an Error, for exactly the fields whose dependencies all have a *)
(* Value, and none for the others; all fields have one when every outcome  *)
(* is a Value.                                                             *)
C5_OutcomesOfUnblockedFields ==
    Finished =>
       /\ ResultKeys(results) = Unblocked(cls, results)
       /\ \A i, j \in 1..Len(results) : results[i].name = results[j].name => i = j
       /\ \A i \in 1..Len(results) :
             results[i].out.isValue <=> results[i].out.msg = ""
       /\ (\A i \in 1..Len(results) : results[i].out.isValue) =>
             ResultKeys(results) = FieldNames(cls)

\* a call ended with outcomes for two fields, one an Error, and none for the
\* dependent of the failed one
C5_Witness ==
    /\ pc = "returned"
    /\ Len(results) = 2
    /\ \E f \in ResultKeys(results), g \in FieldNames(cls) \ ResultKeys(results) :
          /\ ~ResultOf(results, f).isValue
          /\ f \in DependsOn(cls, g)

\* the keys the claims say are tried for a field, in order
KeysTried(c, name) ==
    IF FieldDef(c, name).accepts = <<>> THEN <<name>> ELSE FieldDef(c, name).accepts

\* the value under the first of the keys that the entries hold, omitted if none
FirstPresent(items, keys) ==
    LET present == {i \in 1..Len(keys) : keys[i] \in Keys(items)}
    IN IF present = {} THEN omitted
       ELSE DictGet(items, keys[CHOOSE i \in present : \A j \in present : i <= j])

\* every field has the identity serialize_func and no serialize_to
PlainSerialization(c) ==
    \A i \in 1..Len(get_fields(c)) :
       /\ get_fields(c)[i].f_def.serialize_func = noop
       /\ get_fields(c)[i].f_def.serialize_to = ""

(* C6, as stated: with identity serialize transforms and no serialize_to,  *)
(* serialize(clean(schema, data)) equals the dict data whenever clean      *)
(* succeeds.                                                               *)
C6_RoundTripReproducesData ==
    (pc = "serialized" /\ PlainSerialization(cls) /\ data.isdict) =>
       serialized = data.items

(* C6, amended: with identity serialize transforms and no serialize_to,    *)
(* whenever clean succeeds serialize returns one entry per field, keyed by *)
(* the field's name and holding its validated payload; it equals data when *)
(* data is a dict whose keys are exactly the field names, each field's     *)
(* first present accepted key is its own name and each field's payload is  *)
(* the raw value read.                                                     *)
C6_RoundTripOfOwnKeys ==
    (pc \in {"serialized", "serialize_raised"} /\ PlainSerialization(cls)) =>
       /\ pc = "serialized"
       /\ Keys(serialized) = FieldNames(cls)
       /\ \A i \in 1..Len(calls) :
             DictGet(serialized, calls[i].field) = calls[i].out.value
       /\ ( /\ data.isdict
            /\ Keys(data.items) = FieldNames(cls)
            /\ \A i \in 1..Len(calls) :
                  /\ calls[i].value = DictGet(data.items, calls[i].field)
                  /\ calls[i].out.value = calls[i].value )
          => serialized = data.items

\* a round trip that reproduces a dict with a None and an int, read through
\* accepts that lists the field's own name second
C6_Witness ==
    /\ pc = "serialized"
    /\ PlainSerialization(cls)
    /\ data.isdict
    /\ Keys(data.items) = FieldNames(cls)
    /\ serialized = data.items
    /\ Cardinality(serialized) = 2
    /\ <<"b", None>> \in serialized
    /\ FieldDef(cls, "a").accepts = <<AltKey, "a">>

(* C7: for a dict input the raw value passed to run_validators is the      *)
(* value under the first key of accepts, in declared order, that the dict  *)
(* holds, and omitted when it holds none; without accepts the only key is  *)
(* the field's name, and with accepts the name counts only if listed.      *)
C7_FirstAcceptedKeyOfDict ==
    \A i \in 1..Len(calls) :
       data.isdict =>
          calls[i].value = FirstPresent(data.items, KeysTried(cls, calls[i].field))

\* the dict holds both accepted keys with different values and the one listed
\* first, which is not the field's name, was read
C7_Witness ==
    /\ Len(calls) >= 1
    /\ data.isdict
    /\ FieldDef(cls, calls[1].field).accepts = <<AltKey, calls[1].field>>
    /\ {AltKey, calls[1].field} \subseteq Keys(data.items)
    /\ DictGet(data.items, AltKey) # DictGet(data.items, calls[1].field)
    /\ calls[1].value = DictGet(data.items, AltKey)

(* C8: for an input that is not a dict the raw value read for a field is   *)
(* the record's value under the first accepted name it holds, and omitted  *)
(* when it holds none, as for a dict with the same entries.                *)
C8_NonDictReadLikeDict ==
    \A i \in 1..Len(calls) :
       ~data.isdict =>
          calls[i].value = FirstPresent(data.items, KeysTried(cls, calls[i].field))

\* the functions of the chain invoked for a field
InvokedFor(name) == {k \in 1..Len(invoked) : invoked[k].field = <<name>>}

(* C9: a Required field yields Error 'Value is required.' when the input   *)
(* holds none of its accepted keys and Error 'Value is required, and must  *)
(* not be None.' when the first one it holds maps to None, each with the   *)
(* path (field_name,) and without any function of the chain invoked.       *)
C9_RequiredOmittedAndNone ==
    \A i \in 1..Len(calls) :
       LET name == calls[i].field
           raw == FirstPresent(data.items, KeysTried(cls, name))
       IN FieldDef(cls, name).nullability = Required =>
             /\ raw = omitted =>
                   /\ calls[i].out = Error("Value is required.", <<name>>)
                   /\ InvokedFor(name) = {}
             /\ raw = None =>
                   /\ calls[i].out = Error("Value is required, and must not be None.", <<name>>)
                   /\ InvokedFor(name) = {}

(* C9 for dict inputs only *)
C9_RequiredOmittedAndNoneOfDict ==
    data.isdict => C9_RequiredOmittedAndNone

(* C10: an Optional field yields Value(omitted) when the input holds none  *)
(* of its keys and Value(None) when the key maps to None, the instance     *)
(* attribute being omitted or None; the chain is not invoked in either     *)
(* case, and no validator function is ever passed omitted or None.         *)
C10_OptionalOmittedAndNone ==
    /\ \A i \in 1..Len(calls) :
          LET name == calls[i].field
              raw == FirstPresent(data.items, KeysTried(cls, name))
          IN (FieldDef(cls, name).nullability = Optional /\ raw \in {omitted, None}) =>
                /\ calls[i].out = Value(raw)
                /\ InvokedFor(name) = {}
                /\ returned.kind = "instance" => DictGet(returned.attrs, name) = raw
    /\ \A k \in 1..Len(invoked) : invoked[k].value \notin {omitted, None}

(* C10 for dict inputs only *)
C10_OptionalOmittedAndNoneOfDict ==
    data.isdict => C10_OptionalOmittedAndNone

----------------------------------------------------------------------------
(* C11                                                                     *)

\* the key a field is serialized under
OutputKey(c, i) ==
    IF get_fields(c)[i].f_def.serialize_to # "" THEN get_fields(c)[i].f_def.serialize_to
    ELSE get_fields(c)[i].name

\* the value a field is serialized to, from the attributes of the instance
OutputValue(c, i, attrs) ==
    ApplySerializeFunc(get_fields(c)[i].f_def.serialize_func,
                       DictGet(attrs, get_fields(c)[i].name))

\* the fields serialized under the same key as the i-th
SameOutputKey(c, i) ==
    {j \in 1..Len(get_fields(c)) : OutputKey(c, j) = OutputKey(c, i)}

----------------------------------------------------------------------------
(* C12                                                                     *)

\* a results dict as a set of <<name, outcome>> pairs
Outcomes(res) == {<<res[i].name, res[i].out>> : i \in 1..Len(res)}

\* the elements of a sequence
Range(seq) == {seq[i] : i \in 1..Len(seq)}

\* the order in which the fields were evaluated
EvaluationOrder == [i \in 1..Len(calls) |-> calls[i].field]

(* C12: in a schema without dependencies, whatever the order in which the  *)
(* fields are evaluated, clean ends with the same outcome for every field  *)
(* (the one its raw value alone determines), returns the same kind of      *)
(* result, the same set of Errors and the same attributes as the           *)
(* evaluation in the order of the code.                                    *)
C12_OutcomeSetIndependentOfOrder ==
    pc = "returned" =>
       LET alone == _clean(cls, data)
       IN /\ Outcomes(results) = Outcomes(alone.results)
          /\ ResultKeys(results) = FieldNames(cls)
          /\ \A f \in FieldNames(cls) :
                ResultOf(results, f) =
                   run_validators(FieldDef(cls, f), <<f>>,
                                  ReadAccepted(data, Accepts(f, FieldDef(cls, f)), 1, empty)).out
          /\ returned.kind = alone.returned.kind
          /\ Range(returned.errors) = Range(alone.returned.errors)
          /\ Len(returned.errors) = Len(alone.returned.errors)
          /\ returned.attrs = alone.returned.attrs

\* three fields evaluated in declaration order, two of them failing
C12_Witness ==
    /\ pc = "returned"
    /\ EvaluationOrder = <<"a", "b", "c">>
    /\ Len(returned.errors) = 2
    /\ returned.errors # _clean(cls, data).returned.errors

----------------------------------------------------------------------------
(* C13                                                                     *)

\* each call that has returned holds what it returns when run alone
ReturnsAsAlone ==
    /\ pc = "returned" => Frame1 = _clean(cls, data)
    /\ other.pc = "returned" => other = _clean(cls, other.data)

\* a step of a running call leaves the class and the data of both calls alone
WritesOnlyLocals ==
    /\ pc \in {"cleaning", "returned"} => (cls' = cls /\ data' = data)
    /\ other.pc \in {"cleaning", "returned"} => (cls' = cls /\ other'.data = other.data)

(* C13: two clean calls on the same class, their iterations interleaved in *)
(* any way, each return what they return when run alone, with the same     *)
(* outcomes and the same evaluations; no step of a call changes the class  *)
(* or the input data of either call.                                       *)
C13_ConcurrentCallsReturnAsAlone == []ReturnsAsAlone /\ [][WritesOnlyLocals]_vars

\* the second call has returned a ValidationError while the first, on other
\* data, is between its two iterations with a Value for its first field
C13_Witness ==
    /\ pc = "cleaning"
    /\ Len(calls) = 1
    /\ eval_queue # <<>>
    /\ calls[1].out.isValue
    /\ other.pc = "returned"
    /\ other.returned.kind = "ValidationError"
    /\ Len(other.calls) = 2
    /\ data # other.data

----------------------------------------------------------------------------
(* C14                                                                     *)

\* the functions invoked for a field, in the order of their invocation
ChainLog(name) == SelectSeq(invoked, LAMBDA e : e.field = <<name>>)

\* the log is the chain run on raw up to its first Error, and out its outcome
ChainRunInOrder(chain, log, raw, out, field) ==
    /\ Len(log) \in 1..Len(chain)
    /\ \A k \in 1..Len(log) : log[k].func = chain[k]
    /\ log[1].value = raw
    /\ \A k \in 1..(Len(log) - 1) :
          /\ ~ApplyValidator(chain[k], log[k].value).err
          /\ log[k + 1].value = ApplyValidator(chain[k], log[k].value).value
    /\ LET last == ApplyValidator(chain[Len(log)], log[Len(log)].value)
       IN IF last.err THEN out = Error(last.msg, field)
          ELSE Len(log) = Len(chain) /\ out = Value(last.value)

----------------------------------------------------------------------------
(* C15                                                                     *)

\* every field evaluated so far produced a Value
AllValues == \A i \in 1..Len(calls) : calls[i].out.isValue

\* a finished call that met no Error evaluated every field and set them all
EveryFieldEvaluated ==
    (Finished /\ AllValues) =>
       /\ Ran = FieldNames(cls)
       /\ returned.kind = "instance"
       /\ Keys(returned.attrs) = FieldNames(cls)

(* C15: on every class schema() accepts and every input the loop of clean  *)
(* runs at most one iteration per field and then ends, clean returning;    *)
(* when every evaluated field produced a Value, every field has been       *)
(* evaluated by then and the instance has an attribute for each.           *)
C15_LoopTerminatesWithEveryField ==
    /\ [](Len(calls) <= Len(get_fields(cls)))
    /\ (pc = "cleaning") ~> (pc = "returned")
    /\ []EveryFieldEvaluated

\* a chain of three fields declared dependent first, evaluated to an instance
C15_Witness ==
    /\ pc = "returned"
    /\ DependsOn(cls, "a") = {"b"}
    /\ DependsOn(cls, "b") = {"c"}
    /\ DependsOn(cls, "c") = {}
    /\ EvaluationOrder = <<"c", "b", "a">>
    /\ returned.kind = "instance"
    /\ Keys(returned.attrs) = {"a", "b", "c"}

----------------------------------------------------------------------------
(* C16, C17                                                                *)

\* some field depends on a name that is not a field of the class
Dangling(c) == \E f \in FieldNames(c) : ~(DependsOn(c, f) \subseteq FieldNames(c))

(* C16: the dependency check raises on no class whose dependency names are *)
(* all fields of the class and whose dependency graph has no cycle,        *)
(* whatever the order of declaration: schema() raises no ValueError on it, *)
(* and with nothing to auto-define it completes and installs the methods.  *)
C16_ValidClassAccepted ==
    (pc # "class" /\ ~HasCycle(cls) /\ ~Dangling(cls)) =>
       /\ raised # "ValueError"
       /\ _check_for_dependency_loops(cls) = ""
       /\ cls.annotations = <<>> =>
             /\ pc # "raised"
             /\ cls.methods = {"__clean", "__init__", "__serialize"}

\* schema() accepted a, declared first, which depends on b, which depends on c
C16_Witness ==
    /\ pc = "schema"
    /\ [i \in 1..Len(get_fields(cls)) |-> get_fields(cls)[i].name] = <<"a", "b", "c">>
    /\ DependsOn(cls, "a") = {"b"}
    /\ DependsOn(cls, "b") = {"c"}
    /\ DependsOn(cls, "c") = {}
    /\ cls.methods # {}

(* C17: a class in which some field depends on a name that is not a field  *)
(* of the class never gets past schema(): schema() raises ValueError, the  *)
(* methods are not installed and clean never runs on it.                   *)
C17_DanglingDependencyRejected ==
    Dangling(cls) =>
       /\ pc \in {"class", "raised"}
       /\ pc = "raised" => raised = "ValueError"
       /\ cls.methods = {}
       /\ calls = <<>>
       /\ eval_queue = <<>> /\ results = <<>>

\* schema() raised on a class without a cycle whose only flaw is a dependency
\* on a name that is not a field
C17_Witness ==
    /\ pc = "raised"
    /\ raised = "ValueError"
    /\ Dangling(cls)
    /\ ~HasCycle(cls)
    /\ Len(get_fields(cls)) = 2
    /\ DependsOn(cls, "a") = {}
    /\ DependsOn(cls, "b") = {"a", "c"}

----------------------------------------------------------------------------
(* C18                                                                     *)

\* the position of a field in the declaration order
DeclIndex(c, name) == CHOOSE i \in 1..Len(get_fields(c)) : get_fields(c)[i].name = name

\* the call after which the field of the j-th call became eligible: that of
\* the last evaluated of its dependencies, 0 for a field without dependencies
EligibleSince(j) ==
    LET on == {i \in 1..Len(calls) : calls[i].field \in DependsOn(cls, calls[j].field)}
    IN IF on = {} THEN 0 ELSE CHOOSE i \in on : \A k \in on : k <= i

(* C18: the next field is the last of the queue.  Fields without           *)
(* dependencies are evaluated in the reverse of their declaration order; a *)
(* dependent is evaluated before every field that was in the queue when it *)
(* became eligible, only fields that became eligible no earlier coming in  *)
(* between; the Errors of failing fields without dependencies are in       *)
(* reverse declaration order in the ValidationError.                       *)
C18_LastInFirstOut ==
    /\ \A i, j \in 1..Len(calls) :
          (i < j /\ DependsOn(cls, calls[i].field) = {}
                 /\ DependsOn(cls, calls[j].field) = {}) =>
             DeclIndex(cls, calls[i].field) > DeclIndex(cls, calls[j].field)
    /\ \A j \in 1..Len(calls) :
          DependsOn(cls, calls[j].field) # {} =>
             /\ EligibleSince(j) < j
             /\ \A k \in (EligibleSince(j) + 1)..(j - 1) :
                   /\ DependsOn(cls, calls[k].field) # {}
                   /\ EligibleSince(k) >= EligibleSince(j)
    /\ \A i, j \in 1..Len(returned.errors) :
          LET f == returned.errors[i].field[1]
              g == returned.errors[j].field[1]
          IN (i < j /\ DependsOn(cls, f) = {} /\ DependsOn(cls, g) = {}) =>
                DeclIndex(cls, f) > DeclIndex(cls, g)

\* c, which depends on b, was evaluated right after b and before a, which had
\* been in the queue from the start; c and a failed, in that order
C18_Witness ==
    /\ pc = "returned"
    /\ DependsOn(cls, "a") = {}
    /\ DependsOn(cls, "b") = {}
    /\ DependsOn(cls, "c") = {"b"}
    /\ EvaluationOrder = <<"b", "c", "a">>
    /\ Len(returned.errors) = 2
    /\ returned.errors[1].field = <<"c">>
    /\ returned.errors[2].field = <<"a">>

----------------------------------------------------------------------------
(* C19                                                                     *)

\* a clean call has been made
Called == pc \in {"cleaning", "clean_raised", "returned", "serialized", "serialize_raised"}

(* C19: neither assertion of clean fails.  The fields without dependencies *)
(* and the delayed fields are disjoint and together all the fields, their  *)
(* numbers summing to the number of fields; every raw value the validators *)
(* are run on is a value of the input, omitted or None, never empty, also  *)
(* for a field whose accepts is empty, which is read under its own name.   *)
C19_AssertionsHold ==
    /\ pc # "clean_raised"
    /\ raised # "AssertionError"
    /\ Called =>
          LET queue == Partition(get_fields(cls), 1, FALSE)
          IN /\ delayed_eval = Partition(get_fields(cls), 1, TRUE)
             /\ Len(get_fields(cls)) = Len(queue) + Len(delayed_eval)
             /\ Range(queue) \cup Range(delayed_eval) = FieldNames(cls)
             /\ Range(queue) \cap Range(delayed_eval) = {}
    /\ \A i \in 1..Len(calls) :
          /\ calls[i].value # empty
          /\ calls[i].value \in RawValues \cup {omitted}
          /\ FieldDef(cls, calls[i].field).accepts = <<>> =>
                calls[i].value = getter(data, calls[i].field, omitted)

\* a field with empty accepts was evaluated on a dict without its name
C19_Witness ==
    /\ Called
    /\ data.isdict
    /\ AltKey \in Keys(data.items)
    /\ \E i \in 1..Len(calls) :
          /\ FieldDef(cls, calls[i].field).accepts = <<>>
          /\ calls[i].field \notin Keys(data.items)
          /\ calls[i].value = omitted

----------------------------------------------------------------------------
(* C20                                                                     *)

\* the keys of the entries that are the first present accepted key of a field
KeysRead(c, items) ==
    {k \in Keys(items) :
        \E f \in FieldNames(c) :
           \E i \in 1..Len(KeysTried(c, f)) :
              /\ KeysTried(c, f)[i] = k
              /\ \A j \in 1..(i - 1) : KeysTried(c, f)[j] \notin Keys(items)}

\* the dict without the entries no field reads
WithoutUnreadKeys(c, items) == {p \in items : p[1] \in KeysRead(c, items)}

(* C20: clean on a dict returns what it returns on the dict stripped of    *)
(* every key that is not the first present accepted key of a field, with   *)
(* the same outcome for every field, so two dicts that agree on those      *)
(* entries get the same result; the attributes of an instance are all      *)
(* fields of the class.                                                    *)
C20_UnreadKeysDoNotInfluence ==
    /\ (pc = "returned" /\ data.isdict) =>
          LET alone == _clean(cls, Record(TRUE, WithoutUnreadKeys(cls, data.items)))
          IN /\ Outcomes(results) = Outcomes(alone.results)
             /\ EvaluationOrder = [i \in 1..Len(alone.calls) |-> alone.calls[i].field]
             /\ returned = alone.returned
    /\ Keys(returned.attrs) \subseteq FieldNames(cls)

\* an instance from a dict holding both accepted keys of a, with different
\* values, and only the first of them read
C20_Witness ==
    /\ pc = "returned"
    /\ data.isdict
    /\ returned.kind = "instance"
    /\ FieldDef(cls, "a").accepts = <<"a", AltKey>>
    /\ {"a", AltKey} \subseteq Keys(data.items)
    /\ DictGet(data.items, "a") # DictGet(data.items, AltKey)
    /\ KeysRead(cls, data.items) = {"a"}
    /\ <<"a", DictGet(data.items, "a")>> \in returned.attrs

====
